---- MODULE Spec2Model ----
(***************************************************************************)
(* Model of the bulk import of bctw-api (import/csv.ts, here               *)
(* src/unnamed/part_002): the staged upsert of handleBulkMetadata and      *)
(* handleCollarCritterLink, and the validation pass of parseXlsx.          *)
(***************************************************************************)
EXTENDS Integers, Sequences, FiniteSets, TLC

\* ------------------------------------------------------------------ bounds
MaxRows == 3          \* longest batch handed to handleBulkMetadata
MaxSheetRows == 2     \* most data rows of the Device Metadata sheet
MaxCsvRows == 3       \* most rows of an imported CSV file

\* --------------------------------------------------------------- constants
Null == 0             \* a property that is absent (undefined) in a parsed row
DbNull == -1          \* a null column of a record returned by the store
Now == 9              \* the clock read by new Date() / dayjs()
DayLen == 2           \* clock ticks in one calendar day

VARIABLES
  rows,           \* handleBulkMetadata: the batch (IAnimalDeviceMetadata[])
  pc,             \* handleBulkMetadata: position of the async function
  collarResults,  \* handleBulkMetadata: result of upsertBulk(.., 'device')
  animalResults,  \* handleBulkMetadata: result of upsertBulk(.., 'animal')
  ret,            \* handleBulkMetadata: the IBulkResponse being built
  retval,         \* handleBulkMetadata: the value the promise resolved with
  deviceCall,     \* state of the device upsert call: none / running / done
  animalCall,     \* state of the animal upsert call: none / running / done
  nextDispatch,   \* handleCollarCritterLink: next map() callback to run
  linkState,      \* handleCollarCritterLink: state of each row's promise
  linkBody,       \* handleCollarCritterLink: body sent with each link call
  sheets,         \* parseXlsx: the data rows of the two sheets of the workbook
  codeHeaders,    \* store: the names in table code_header
  codeTable,      \* store: the code descriptions of each code header
  deviceLinks,    \* store: assignment history of each device
  animalLinks,    \* store: collar assignment history of each animal
  storeAnimals,   \* store: the animal ids is_new_animal finds
  xpc,            \* parseXlsx: position of the async function
  code_header_names, \* parseXlsx: the code fields of the pass
  sheetIdx,       \* parseXlsx: index of req in sheetRequirements
  rowIdx,         \* parseXlsx: index of the next data row of the sheet
  verifiedRowObj, \* parseXlsx: row results of the current sheet
  sheetResults,   \* parseXlsx: results of the sheets completed so far
  delivered,      \* parseXlsx: the argument the callback was called with
  xfail,          \* parseXlsx: what made the pass throw, "none" if nothing
  linkData,       \* verifyAssignment: its last argument row and return value
  checkData,      \* parseXlsx: the checks of the last row and their results
  finalBody,      \* finalizeImport: the request bodies sent to upsert_bulk_v2
  acknowledged,   \* client: the user confirmed the prompts before submitting
  finalResponse,  \* finalizeImport: the response it sent, none while it has not
  \* importCsv
  csvRows,        \* the rows of the uploaded file, headers mapped
  cpc,            \* importCsv: where the request stands
  cpos,           \* parseCSV: the next row of the stream
  parsed,         \* parseCSV: ret, the four arrays of classified rows
  handlerCalls,   \* importCsv: the handlers called, each with its rows
  csvResponse     \* importCsv: the status and body sent, none before

bulkVars == <<rows, pc, collarResults, animalResults, ret, retval,
              deviceCall, animalCall, nextDispatch, linkState, linkBody>>

xlsxVars == <<sheets, codeHeaders, codeTable, deviceLinks,
              animalLinks, storeAnimals,
              xpc, code_header_names, sheetIdx, rowIdx, verifiedRowObj,
              sheetResults, delivered, xfail, linkData, checkData,
              finalBody, acknowledged,
                 finalResponse>>

csvVars == <<csvRows, cpc, cpos, parsed, handlerCalls, csvResponse>>

vars == <<bulkVars, xlsxVars, csvVars>>

\* ------------------------------------------------------------ pure helpers
Reverse(s) == [i \in 1..Len(s) |-> s[Len(s) + 1 - i]]

\* the least element of a set of indexes, 0 if it is empty: the index
\* Array.prototype.find stops at
First(S) == IF S = {} THEN 0 ELSE CHOOSE i \in S : \A j \in S : i <= j

\* the indexes of 1..n that are in S, in ascending order: the elements
\* Array.prototype.filter keeps
RECURSIVE KeptFrom(_, _, _)
KeptFrom(i, n, S) ==
  IF i > n THEN <<>>
  ELSE IF i \in S THEN <<i>> \o KeptFrom(i + 1, n, S)
  ELSE KeptFrom(i + 1, n, S)

Kept(n, S) == KeptFrom(1, n, S)

\* --------------------------------------------------------------- the batch
\* rows of a combined animal+device CSV file, after removeEmptyProps
BulkRow(d, a, w, cap, mort, retr) ==
  [device_id |-> d, animal_id |-> a, wlh_id |-> w,
   capture_date |-> cap, mortality_date |-> mort, retrieval_date |-> retr]

\* deployments of animals 1 and 2, one of an animal named by wlh_id only, and
\* an animal-only row that records a later capture and the death of animal 1
BulkRowPool ==
  { BulkRow(1, 1, Null, 2, Null, Null),
    BulkRow(2, 2, Null, Null, 6, 4),
    BulkRow(3, Null, 1, 3, Null, 5),
    BulkRow(Null, 1, Null, 6, 8, Null) }

Batches == UNION { [1..n -> BulkRowPool] : n \in 1..MaxRows }

\* rows.map((row, idx) => ({ rowIndex: idx, row })).filter((r) => r.row.device_id)
\* as the sequence of the 1-based indexes of the kept rows
animalsWithDevices(rs) ==
  Kept(Len(rs), { i \in 1..Len(rs) : rs[i].device_id # Null })

\* rowIndex of a row of the batch: the 0-based index of rows.map
rowIndex(i) == i - 1

\* ------------------------------------------------------------- the store
\* The entity the store returns for an upserted row.
Collar(r) == [device_id |-> r.device_id, collar_id |-> 10 + r.device_id]

Animal(r) ==
  [animal_id |-> IF r.animal_id = Null THEN DbNull ELSE r.animal_id,
   wlh_id |-> IF r.wlh_id = Null THEN DbNull ELSE r.wlh_id,
   critter_id |-> 100 + 10 * r.animal_id + r.wlh_id,
   capture_date |-> IF r.capture_date = Null THEN DbNull ELSE r.capture_date,
   mortality_date |->
     IF r.mortality_date = Null THEN DbNull ELSE r.mortality_date]

Entity(type, r) == IF type = "device" THEN Collar(r) ELSE Animal(r)

EntityKey(type, e) == IF type = "device" THEN <<e.device_id>>
                      ELSE <<e.animal_id, e.wlh_id>>

\* rowToCsv(row): the values of the row, one after the other
rowToCsv(r) ==
  <<r.device_id, r.animal_id, r.wlh_id, r.capture_date, r.mortality_date,
    r.retrieval_date>>

BulkError(i, r, e) ==
  [rownum |-> rowIndex(i), row |-> rowToCsv(r), error |-> e]

\* upsertBulk(username, rows, type): the rows in `failed` come back as row
\* errors, the others as upserted entities, which the store may return
\* de-duplicated by natural key and in either order, and of which it may
\* leave out the first.
upsertBulk(rs, type, failed, dedupe, reversed, omitted) ==
  LET okIdx == Kept(Len(rs), (1..Len(rs)) \ failed)
      ents == [k \in 1..Len(okIdx) |-> Entity(type, rs[okIdx[k]])]
      firsts == { k \in 1..Len(ents) :
                    \A j \in 1..(k - 1) :
                      EntityKey(type, ents[j]) # EntityKey(type, ents[k]) }
      keptIdx == IF dedupe THEN Kept(Len(ents), firsts)
                 ELSE Kept(Len(ents), 1..Len(ents))
      kept == [k \in 1..Len(keptIdx) |-> ents[keptIdx[k]]]
      given == IF omitted /\ Len(kept) > 0 THEN Tail(kept) ELSE kept
      badIdx == Kept(Len(rs), (1..Len(rs)) \cap failed)
  IN [errors |-> [k \in 1..Len(badIdx) |->
                    BulkError(badIdx[k], rs[badIdx[k]], "upsert_" \o type)],
      results |-> IF reversed THEN Reverse(given) ELSE given]

\* the ways the promise of query() can settle: fulfilled with isError false,
\* fulfilled with isError true, or rejected
QueryOutcomes == {"ok", "isError", "rejected"}

NoResponse == [errors |-> <<>>, results |-> <<>>]

Success(kind, n, i) == [kind |-> kind, n |-> n, rownum |-> i]

\* a ?? b on values of the store (null) and of a row (undefined)
Coalesce(a, b) == IF a = DbNull \/ a = Null THEN b ELSE a

\* no validation pass is running
XlsxIdle ==
  /\ sheets = <<>>
  /\ codeHeaders = {}
  /\ codeTable = <<>>
  /\ deviceLinks = <<>>
  /\ animalLinks = <<>>
  /\ storeAnimals = {}
  /\ xpc = "idle"
  /\ code_header_names = {}
  /\ sheetIdx = 0
  /\ rowIdx = 0
  /\ verifiedRowObj = <<>>
  /\ sheetResults = <<>>
  /\ delivered = <<>>
  /\ xfail = "none"
  /\ linkData = <<>>
  /\ checkData = <<>>
  /\ finalBody = <<>>
  /\ acknowledged = FALSE
  /\ finalResponse = <<>>

\* no CSV import is running
CsvIdle ==
  /\ csvRows = <<>>
  /\ cpc = "idle"
  /\ cpos = 0
  /\ parsed = [both |-> <<>>, animals |-> <<>>, collars |-> <<>>,
               points |-> <<>>]
  /\ handlerCalls = <<>>
  /\ csvResponse = <<>>

\* no bulk upsert is running
BulkIdle ==
  /\ rows = <<>>
  /\ pc = "idle"
  /\ collarResults = NoResponse
  /\ animalResults = NoResponse
  /\ ret = NoResponse
  /\ retval = NoResponse
  /\ deviceCall = "none"
  /\ animalCall = "none"
  /\ nextDispatch = 1
  /\ linkState = <<>>
  /\ linkBody = <<>>

\* ------------------------------------------------- handleBulkMetadata
InitBulk ==
  /\ rows \in Batches
  /\ pc = "start"
  /\ collarResults = NoResponse
  /\ animalResults = NoResponse
  /\ ret = NoResponse
  /\ retval = NoResponse
  /\ deviceCall = "none"
  /\ animalCall = "none"
  /\ nextDispatch = 1
  /\ linkState = [i \in 1..Len(rows) |-> "idle"]
  /\ linkBody = [i \in 1..Len(rows) |-> <<>>]
  /\ XlsxIdle
  /\ CsvIdle

\* if (collarResults.errors.length) return collarResults
collarFailed_never(res) == FALSE

collarFailed(res) == Len(res.errors) > 0

\* if (animalResults.errors.length) return animalResults
animalFailed_never(res) == FALSE

animalFailed(res) == Len(res.errors) > 0

\* both upserts started together instead of one after the other
DeviceUpsertCall_both ==
  /\ pc = "start"
  /\ deviceCall' = "running"
  /\ animalCall' = "running"
  /\ pc' = "await_device"
  /\ UNCHANGED <<rows, collarResults, animalResults, ret, retval,
                 nextDispatch, linkState, linkBody>>

\* const collarResults = await upsertBulk(username, rows, 'device'): the call
DeviceUpsertCall ==
  /\ pc = "start"
  /\ deviceCall' = "running"
  /\ pc' = "await_device"
  /\ UNCHANGED <<rows, collarResults, animalResults, ret, retval, animalCall,
                 nextDispatch, linkState, linkBody>>

\* the device upsert settles; if (collarResults.errors.length) return it
DeviceUpsertReturn ==
  /\ pc = "await_device"
  /\ \E failed \in SUBSET (1..Len(rows)), dedupe \in BOOLEAN,
        reversed \in BOOLEAN, omitted \in BOOLEAN :
       LET res == upsertBulk(rows, "device", failed, dedupe, reversed,
                             omitted)
       IN /\ collarResults' = res
          /\ IF collarFailed(res)
             THEN /\ retval' = res
                  /\ pc' = "returned"
                  /\ ret' = ret
             ELSE /\ ret' = [ret EXCEPT !.results = Append(@,
                               Success("devices_added", Len(res.results), -1))]
                  /\ pc' = "animal"
                  /\ retval' = retval
  /\ deviceCall' = "done"
  /\ UNCHANGED <<rows, animalResults, animalCall, nextDispatch, linkState,
                 linkBody>>

\* const animalResults = await upsertBulk(username, rows, 'animal'): the call
AnimalUpsertCall ==
  /\ pc = "animal"
  /\ animalCall' = "running"
  /\ pc' = "await_animal"
  /\ UNCHANGED <<rows, collarResults, animalResults, ret, retval, deviceCall,
                 nextDispatch, linkState, linkBody>>

\* the animal upsert settles; on success handleCollarCritterLink is entered
\* when animalsWithDevices.length, else ret is returned
AnimalUpsertReturn ==
  /\ pc = "await_animal"
  /\ \E failed \in SUBSET (1..Len(rows)), dedupe \in BOOLEAN,
        reversed \in BOOLEAN :
       LET res == upsertBulk(rows, "animal", failed, dedupe, reversed, FALSE)
           ret2 == [ret EXCEPT !.results = Append(@,
                      Success("animals_added", Len(res.results), -1))]
       IN /\ animalResults' = res
          /\ IF animalFailed(res)
             THEN /\ retval' = res
                  /\ pc' = "returned"
                  /\ ret' = ret
             ELSE /\ ret' = ret2
                  /\ IF Len(animalsWithDevices(rows)) > 0
                        /\ Len(collarResults.errors) = 0
                        /\ Len(res.errors) = 0
                     THEN pc' = "link" /\ retval' = retval
                     ELSE pc' = "returned" /\ retval' = ret2
  /\ animalCall' = "done"
  /\ UNCHANGED <<rows, collarResults, deviceCall, nextDispatch, linkState,
                 linkBody>>

\* ---------------------------------------------- handleCollarCritterLink
\* critterResults.find((cr) => cr.animal_id === row.animal_id)
savedCritter(critterResults, row) ==
  First({ k \in 1..Len(critterResults) :
            critterResults[k].animal_id = row.animal_id })

\* collarResults.find((dr) => dr.device_id.toString() === row.device_id.toString())
matchingCollar(collars, row) ==
  First({ k \in 1..Len(collars) : collars[k].device_id = row.device_id })

\* the HistoricalAttachmentProps built for a row
attachment_start(critter) == Coalesce(critter.capture_date, Now)

attachment_end(critter, row) ==
  Coalesce(critter.mortality_date, Coalesce(row.retrieval_date, DbNull))

LinkBody(collar, critter, row) ==
  [collar_id |-> collar.collar_id,
   critter_id |-> critter.critter_id,
   attachment_start |-> attachment_start(critter),
   data_life_start |-> attachment_start(critter),
   attachment_end |-> attachment_end(critter, row),
   data_life_end |-> attachment_start(critter)]

\* the synchronous part of one callback of crittersWithCollars.map: up to
\* its return or to the await of the link query
LinkDispatch ==
  /\ pc = "link"
  /\ nextDispatch <= Len(animalsWithDevices(rows))
  /\ LET i == animalsWithDevices(rows)[nextDispatch]
         row == rows[i]
         sc == savedCritter(animalResults.results, row)
         mc == matchingCollar(collarResults.results, row)
     IN IF sc = 0
        THEN /\ linkState' = [linkState EXCEPT ![i] = "nocritter"]
             /\ UNCHANGED <<ret, linkBody>>
        ELSE IF mc = 0
        THEN /\ ret' = [ret EXCEPT !.errors = Append(@,
                          BulkError(i, row, "no_matching_collar"))]
             /\ linkState' = [linkState EXCEPT ![i] = "nocollar"]
             /\ UNCHANGED linkBody
        ELSE /\ linkBody' = [linkBody EXCEPT ![i] =
                   <<LinkBody(collarResults.results[mc],
                              animalResults.results[sc], row)>>]
             /\ linkState' = [linkState EXCEPT ![i] = "pending"]
             /\ UNCHANGED ret
  /\ nextDispatch' = nextDispatch + 1
  /\ UNCHANGED <<rows, pc, collarResults, animalResults, retval, deviceCall,
                 animalCall>>

\* const result = await query(sql, '', true): the link query of row i settles
LinkSettle(i) ==
  /\ pc = "link"
  /\ linkState[i] = "pending"
  /\ \E o \in QueryOutcomes : linkState' = [linkState EXCEPT ![i] = o]
  /\ UNCHANGED <<rows, pc, collarResults, animalResults, ret, retval,
                 deviceCall, animalCall, nextDispatch, linkBody>>

\* animal?.animal_id ?? animal.wlh_id
animalIdentifier(row) == Coalesce(row.animal_id, row.wlh_id)

\* the entries numbered by the position in crittersWithCollars
RECURSIVE CollectFrom_byPosition(_, _, _, _, _)
CollectFrom_byPosition(resp, rs, awd, states, k) ==
  IF k > Len(awd) THEN resp
  ELSE LET i == awd[k]
           next == IF states[i] = "rejected"
                   THEN [resp EXCEPT !.errors = Append(@,
                           BulkError(k, rs[i], "link_rejected"))]
                   ELSE [resp EXCEPT !.results = Append(@,
                           Success("attached", animalIdentifier(rs[i]),
                                   rowIndex(k)))]
       IN CollectFrom_byPosition(next, rs, awd, states, k + 1)

\* values.forEach((val, i) => ...) of the .then of Promise.allSettled
RECURSIVE CollectFrom(_, _, _, _, _)
CollectFrom(resp, rs, awd, states, k) ==
  IF k > Len(awd) THEN resp
  ELSE LET i == awd[k]
           next == IF states[i] = "rejected"
                   THEN [resp EXCEPT !.errors = Append(@,
                           BulkError(i, rs[i], "link_rejected"))]
                   ELSE [resp EXCEPT !.results = Append(@,
                           Success("attached", animalIdentifier(rs[i]),
                                   rowIndex(i)))]
       IN CollectFrom(next, rs, awd, states, k + 1)

\* Promise.all: resolves or rejects as soon as one promise has rejected
allSettled_failFast(awd, states, dispatched) ==
  /\ dispatched > Len(awd)
  /\ \/ \A k \in 1..Len(awd) : states[awd[k]] # "pending"
     \/ \E k \in 1..Len(awd) : states[awd[k]] = "rejected"

\* Promise.allSettled resolves once every promise of the map has settled
allSettled(awd, states, dispatched) ==
  /\ dispatched > Len(awd)
  /\ \A k \in 1..Len(awd) : states[awd[k]] # "pending"

\* the .then of Promise.allSettled, then handleBulkMetadata returns ret
LinkCollect ==
  /\ pc = "link"
  /\ allSettled(animalsWithDevices(rows), linkState, nextDispatch)
  /\ ret' = CollectFrom(ret, rows, animalsWithDevices(rows), linkState, 1)
  /\ retval' = ret'
  /\ pc' = "returned"
  /\ UNCHANGED <<rows, collarResults, animalResults, deviceCall, animalCall,
                 nextDispatch, linkState, linkBody>>

NextBulk ==
  \/ DeviceUpsertCall /\ UNCHANGED <<xlsxVars, csvVars>>
  \/ DeviceUpsertReturn /\ UNCHANGED <<xlsxVars, csvVars>>
  \/ AnimalUpsertCall /\ UNCHANGED <<xlsxVars, csvVars>>
  \/ AnimalUpsertReturn /\ UNCHANGED <<xlsxVars, csvVars>>
  \/ LinkDispatch /\ UNCHANGED <<xlsxVars, csvVars>>
  \/ \E i \in 1..Len(rows) : LinkSettle(i) /\ UNCHANGED <<xlsxVars, csvVars>>
  \/ LinkCollect /\ UNCHANGED <<xlsxVars, csvVars>>

SpecBulk == InitBulk /\ [][NextBulk]_vars

\* ------------------------------------------------------ spreadsheet cells
\* a cell value: a Date, a number, a string that Date can parse (time n), a
\* string that it cannot, or an empty cell
Empty == [t |-> "empty", s |-> "", n |-> 0]
DateCell(time) == [t |-> "date", s |-> "", n |-> time]
NumCell(num) == [t |-> "number", s |-> "", n |-> num]
StrCell(str) == [t |-> "string", s |-> str, n |-> 0]
DateStrCell(time) == [t |-> "datestring", s |-> "", n |-> time]

\* the 'YYYY-MM-DD' string of a day, as a value: it parses to the day's start
DayStr(time) == [t |-> "daystring", s |-> "", n |-> time]

\* new Date(x) is a valid date
ValidTime(c) == c.t \in {"date", "number", "datestring", "daystring"}

\* new Date(x).toISOString().split('T')[0]: the time is cut to its day
toISODay(c) == DayStr((c.n \div DayLen) * DayLen)

\* truthiness of a cell
Truthy(c) ==
  /\ c.t # "empty"
  /\ c.t = "number" => c.n # 0
  /\ c.t = "string" => c.s # ""

\* row[key], Empty standing for undefined
Get(row, key) == IF key \in DOMAIN row THEN row[key] ELSE Empty

\* the time a date property of a row denotes
TimeOf(c) == c.n

\* removeEmptyProps: the properties holding no value are dropped
removeEmptyProps(raw) ==
  [k \in { h \in DOMAIN raw : raw[h].t # "empty"
                              /\ ~(raw[h].t = "string" /\ raw[h].s = "") }
     |-> raw[k]]

\* ------------------------------------------------------------ the workbook
deviceMetadataSheet == 1
telemetrySheet == 2

MetaHeaders == {"species", "region", "animal_id", "device_id", "capture_date",
                "retrieval_date", "mortality_date", "critter_id",
                "activation_status"}

TeleHeaders == {"device_id", "acquisition_date", "satellite"}

MetaRow(sp, reg, an, dev, cap, retr, mort, cr) ==
  [h \in MetaHeaders |->
     CASE h = "species" -> sp
       [] h = "region" -> reg
       [] h = "animal_id" -> an
       [] h = "device_id" -> dev
       [] h = "capture_date" -> cap
       [] h = "retrieval_date" -> retr
       [] h = "mortality_date" -> mort
       [] h = "critter_id" -> cr
       [] OTHER -> Empty]

\* the row with its activation_status cell filled in
WithStatus(row, cell) == [row EXCEPT !["activation_status"] = cell]

TeleRow(dev, acq, sat) ==
  [h \in TeleHeaders |->
     CASE h = "device_id" -> dev
       [] h = "acquisition_date" -> acq
       [] OTHER -> sat]

MetaRowPool ==
  { \* a clean row: new deployment of device 1 from time 6 on
    WithStatus(MetaRow(StrCell("Moose"), StrCell(""), StrCell("a1"),
                       NumCell(1), DateCell(6), Empty, Empty, Empty),
               StrCell("TRUE")),
    \* species not in the code domain, capture date given as text
    MetaRow(StrCell("Caribou"), StrCell("Peace"), StrCell("a2"), NumCell(2),
            DateStrCell(3), Empty, Empty, Empty),
    \* neither species nor device id
    MetaRow(Empty, Empty, StrCell("a1"), Empty, DateCell(4), Empty, Empty,
            Empty),
    \* a capture date cell that is not a date at all
    MetaRow(StrCell("Moose"), Empty, StrCell("a2"), NumCell(1),
            StrCell("n/a"), Empty, Empty, Empty),
    \* an existing animal, deployment closed by retrieval and mortality
    WithStatus(MetaRow(StrCell("Elk"), StrCell("Peace"), StrCell("a1"),
                       NumCell(1), DateCell(13), DateCell(17), DateCell(15),
                       NumCell(1)),
               StrCell("FALSE")),
    \* no capture date, device id given as text
    MetaRow(StrCell("Elk"), Empty, Empty, StrCell("x7"), Empty, Empty,
            DateCell(12), NumCell(1)),
    \* neither species nor device id, and a region that is no code
    MetaRow(Empty, StrCell("Nowhere"), StrCell("a2"), Empty, Empty, Empty,
            Empty, Empty),
    \* a device id but no species, and a status that is no boolean token
    WithStatus(MetaRow(Empty, StrCell("Peace"), StrCell("a2"), NumCell(1),
                       DateCell(6), Empty, Empty, Empty),
               StrCell("yes")) }

TeleRowPool ==
  { TeleRow(NumCell(1), DateCell(5), Empty),
    TeleRow(NumCell(2), DateCell(5), StrCell("Iridium")) }

SeqsUpTo(S, n) == UNION { [1..m -> S] : m \in 0..n }

\* ---------------------------------------------------------------- store
Interval(start, end) == [attachment_start |-> start, attachment_end |-> end]

\* get_device_assignment_history of device 1 (no other device has any)
DeviceHistories ==
  { <<>>, <<Interval(2, 12)>>, <<Interval(2, 4)>>,
    <<Interval(1, 2), Interval(14, DbNull)>> }

\* get_animal_collar_assignment_history of critter 1
AnimalHistories ==
  { <<>>, <<Interval(2, 12)>>, <<Interval(16, DbNull)>>,
    <<Interval(2, 4), Interval(15, DbNull)>> }

\* the code_header rows the store may hold
CodeHeaderSets == { {"region"}, {"region", "satellite"} }

extraCodeFields == {"species"}

\* the codes the store holds when the workbook is uploaded
InitialCodes ==
  [key \in {"species", "region", "satellite"} |->
     CASE key = "species" -> <<"Moose", "Elk">>
       [] key = "region" -> <<"Peace", "Omineca">>
       [] OTHER -> <<"Iridium", "Globalstar">>]

\* get_code(key): the descriptions of the codes of a header, in store order
CodeDescriptions(key) ==
  IF key \in DOMAIN codeTable THEN codeTable[key] ELSE <<>>

\* obtainColumnTypes: the types of the columns of tables animal and collar
columnTypes(key) ==
  CASE key \in {"capture_date", "retrieval_date", "mortality_date"} -> "date"
    [] key \in {"device_id"} -> "number"
    [] key \in {"species", "region", "animal_id", "critter_id"} -> "string"
    [] key \in {"activation_status"} -> "boolean"
    [] OTHER -> "undefined"

\* the rows validated earlier in the pass counted as stored animals
is_new_animal_intraBatch(row, known) ==
  Get(row, "animal_id").s \notin
    known \cup { Get(verifiedRowObj[k].row, "animal_id").s :
                   k \in 1..Len(verifiedRowObj) }

\* is_new_animal(row): no stored animal has the identity of the row
is_new_animal(row, known) == Get(row, "animal_id").s \notin known

\* intervals that include their end
dateRangesOverlap_closed(s1, e1, s2, e2) ==
  /\ (e2 \in {Null, DbNull} \/ s1 <= e2)
  /\ (e1 \in {Null, DbNull} \/ s2 <= e1)

\* dateRangesOverlap(start1, end1, start2, end2), an absent end being open
dateRangesOverlap(s1, e1, s2, e2) ==
  /\ (e2 \in {Null, DbNull} \/ s1 < e2)
  /\ (e1 \in {Null, DbNull} \/ s2 < e1)

\* ------------------------------------------------------------ validation
Includes(seq, x) == \E k \in 1..Len(seq) : seq[k] = x

NoErrors == [k \in {} |-> [desc |-> "", valid_values |-> <<>>]]

CellError(desc, valid) == [desc |-> desc, valid_values |-> valid]

Warning(message, prompt) == [message |-> message, prompt |-> prompt]

\* {...a, ...b}
Spread(a, b) ==
  [k \in DOMAIN a \cup DOMAIN b |-> IF k \in DOMAIN b THEN b[k] ELSE a[k]]

\* a date column accepts every value that Date can parse
BadCell_parsesDate(row, codeFields, key) ==
  IF key \in codeFields
  THEN ~(row[key].t = "string" /\ Includes(CodeDescriptions(key), row[key].s))
  ELSE CASE columnTypes(key) = "date" -> ~ValidTime(row[key])
         [] columnTypes(key) = "number" -> row[key].t # "number"
         [] columnTypes(key) = "boolean" ->
              ~(row[key].t = "string" /\ row[key].s \in {"TRUE", "FALSE"})
         [] OTHER -> FALSE

\* the check checkGenericErrors applies to one key of the row
BadCell(row, codeFields, key) ==
  IF key \in codeFields
  THEN ~(row[key].t = "string" /\ Includes(CodeDescriptions(key), row[key].s))
  ELSE CASE columnTypes(key) = "date" -> row[key].t # "date"
         [] columnTypes(key) = "number" -> row[key].t # "number"
         [] columnTypes(key) = "boolean" ->
              ~(row[key].t = "string" /\ row[key].s \in {"TRUE", "FALSE"})
         [] OTHER -> FALSE

\* the error of a code field built like the others, without the domain
checkGenericErrors_noValidValues(row, codeFields) ==
  [key \in { k \in DOMAIN row : BadCell(row, codeFields, k) } |->
     IF key \in codeFields
     THEN CellError("not a valid code", <<>>)
     ELSE CellError("not a valid " \o columnTypes(key), <<>>)]

checkGenericErrors(row, codeFields) ==
  [key \in { k \in DOMAIN row : BadCell(row, codeFields, k) } |->
     IF key \in codeFields
     THEN CellError("not a valid code", CodeDescriptions(key))
     ELSE CellError("not a valid " \o columnTypes(key), <<>>)]

\* the loop of parseXlsx that rewrites the date columns as YYYY-MM-DD; it
\* throws a RangeError on a value that is no valid time
ConvertThrows(row) ==
  \E k \in DOMAIN row : columnTypes(k) = "date" /\ ~ValidTime(row[k])

convertDates(row) ==
  [k \in DOMAIN row |->
     IF columnTypes(k) = "date" THEN toISODay(row[k]) ELSE row[k]]

\* row.species && row.device_id
requireFields(row) ==
  Truthy(Get(row, "species")) /\ Truthy(Get(row, "device_id"))

\* row.capture_date ?? new Date()
row_start(row) ==
  IF "capture_date" \in DOMAIN row THEN TimeOf(row["capture_date"]) ELSE Now

\* row.retrieval_date ?? row.mortality_date ?? null
row_end(row) ==
  IF "retrieval_date" \in DOMAIN row THEN TimeOf(row["retrieval_date"])
  ELSE IF "mortality_date" \in DOMAIN row THEN TimeOf(row["mortality_date"])
  ELSE Null

\* links.some(link => dateRangesOverlap(link.attachment_start,
\*                                      link.attachment_end, row_start, row_end))
someOverlap_every(links, row) ==
  \A k \in 1..Len(links) :
    dateRangesOverlap(links[k].attachment_start, links[k].attachment_end,
                      row_start(row), row_end(row))

someOverlap(links, row) ==
  \E k \in 1..Len(links) :
    dateRangesOverlap(links[k].attachment_start, links[k].attachment_end,
                      row_start(row), row_end(row))

\* the history the store returns for the device / the animal of a row
DeviceLinksOf(row, hist) ==
  IF Get(row, "device_id") = NumCell(1) THEN hist ELSE <<>>

AnimalLinksOf(row, hist) ==
  IF Get(row, "critter_id") = NumCell(1) THEN hist ELSE <<>>

\* the animal's history is looked at only when the device check found no error
verifyAssignment_animalElse(row, devHist, aniHist) ==
  LET dl == DeviceLinksOf(row, devHist)
      al == AnimalLinksOf(row, aniHist)
      errs == IF someOverlap(dl, row)
              THEN [k \in {"device_id"} |->
                      CellError("device already assigned", <<>>)]
              ELSE NoErrors
      w1 == IF ~someOverlap(dl, row) /\ Len(dl) > 0
            THEN <<Warning("previous deployments", FALSE)>>
            ELSE <<>>
      w2 == IF ~someOverlap(dl, row) /\ Truthy(Get(row, "critter_id"))
               /\ someOverlap(al, row)
            THEN <<Warning("multiple devices", TRUE)>>
            ELSE <<>>
  IN [errors |-> errs, warnings |-> w1 \o w2,
      queries |-> {"get_device_assignment_history"}
                  \cup (IF Truthy(Get(row, "critter_id"))
                        THEN {"get_animal_collar_assignment_history"}
                        ELSE {})]

verifyAssignment(row, devHist, aniHist) ==
  LET dl == DeviceLinksOf(row, devHist)
      al == AnimalLinksOf(row, aniHist)
      errs == IF someOverlap(dl, row)
              THEN [k \in {"device_id"} |->
                      CellError("device already assigned", <<>>)]
              ELSE NoErrors
      w1 == IF ~someOverlap(dl, row) /\ Len(dl) > 0
            THEN <<Warning("previous deployments", FALSE)>>
            ELSE <<>>
      w2 == IF Truthy(Get(row, "critter_id")) /\ someOverlap(al, row)
            THEN <<Warning("multiple devices", TRUE)>>
            ELSE <<>>
  IN [errors |-> errs, warnings |-> w1 \o w2,
      queries |-> {"get_device_assignment_history"}
                  \cup (IF Truthy(Get(row, "critter_id"))
                        THEN {"get_animal_collar_assignment_history"}
                        ELSE {})]

\* the missing_data error is set but the function goes on to the other checks
checkAnimalDeviceErrorsAndWarns_noReturn(row, devHist, aniHist, known) ==
  LET r == verifyAssignment(row, devHist, aniHist)
      missing == IF ~requireFields(row)
                 THEN [k \in {"missing_data"} |->
                         CellError("insufficient data", <<>>)]
                 ELSE NoErrors
  IN [errors |-> Spread(missing, r.errors),
      warnings |-> IF is_new_animal(row, known)
                   THEN Append(r.warnings, Warning("new animal", TRUE))
                   ELSE r.warnings,
      queries |-> r.queries \cup {"is_new_animal"}]

\* a row that matches no stored animal is reported as an error on animal_id
checkAnimalDeviceErrorsAndWarns_newIsError(row, devHist, aniHist, known) ==
  IF ~requireFields(row)
  THEN [errors |-> [k \in {"missing_data"} |->
                      CellError("insufficient data", <<>>)],
        warnings |-> <<>>,
        queries |-> {}]
  ELSE LET r == verifyAssignment(row, devHist, aniHist)
       IN [errors |-> IF is_new_animal(row, known)
                      THEN Spread(r.errors,
                                  [k \in {"animal_id"} |->
                                     CellError("unknown animal", <<>>)])
                      ELSE r.errors,
           warnings |-> r.warnings,
           queries |-> r.queries \cup {"is_new_animal"}]

checkAnimalDeviceErrorsAndWarns(row, devHist, aniHist, known) ==
  IF ~requireFields(row)
  THEN [errors |-> [k \in {"missing_data"} |->
                      CellError("insufficient data", <<>>)],
        warnings |-> <<>>,
        queries |-> {}]
  ELSE LET r == verifyAssignment(row, devHist, aniHist)
       IN [errors |-> r.errors,
           warnings |-> IF is_new_animal(row, known)
                        THEN Append(r.warnings, Warning("new animal", TRUE))
                        ELSE r.warnings,
           queries |-> r.queries \cup {"is_new_animal"}]

\* a row that is reported successful only when nothing is left to confirm
rowObjSuccess_noPrompt(rowObj) ==
  /\ DOMAIN rowObj.errors = {}
  /\ \A k \in 1..Len(rowObj.warnings) : ~rowObj.warnings[k].prompt

\* rowObj.success = Object.keys(rowObj.errors).length == 0
rowObjSuccess(rowObj) == DOMAIN rowObj.errors = {}

\* one iteration of the row loop of parseXlsx that ran to its end
RowResult(raw, sheet, codeFields, devHist, aniHist, known) ==
  LET crow == removeEmptyProps(raw)
      errors == checkGenericErrors(crow, codeFields)
      row == convertDates(crow)
      ew == IF sheet = deviceMetadataSheet
            THEN checkAnimalDeviceErrorsAndWarns(row, devHist, aniHist, known)
            ELSE [errors |-> NoErrors, warnings |-> <<>>]
      rowObj == [row |-> row, errors |-> Spread(errors, ew.errors),
                 warnings |-> ew.warnings]
  IN [row |-> rowObj.row, errors |-> rowObj.errors,
      warnings |-> rowObj.warnings, success |-> rowObjSuccess(rowObj)]

\* -------------------------------------------------------------- parseXlsx
InitXlsx ==
  /\ sheets \in { <<m, t>> : m \in SeqsUpTo(MetaRowPool, MaxSheetRows),
                             t \in SeqsUpTo(TeleRowPool, 1) }
  /\ codeHeaders \in CodeHeaderSets
  /\ codeTable = InitialCodes
  /\ deviceLinks \in DeviceHistories
  /\ animalLinks \in AnimalHistories
  /\ storeAnimals \in { {}, {"a1"} }
  /\ xpc = "start"
  /\ code_header_names = {}
  /\ sheetIdx = 0
  /\ rowIdx = 0
  /\ verifiedRowObj = <<>>
  /\ sheetResults = <<>>
  /\ delivered = <<>>
  /\ xfail = "none"
  /\ linkData = <<>>
  /\ checkData = <<>>
  /\ finalBody = <<>>
  /\ acknowledged = FALSE
  /\ finalResponse = <<>>
  /\ BulkIdle
  /\ CsvIdle

\* catch (err) { console.log(err); }  callback(sheetResults);
Caught(kind) ==
  /\ xfail' = kind
  /\ delivered' = <<sheetResults>>
  /\ xpc' = "done"
  /\ UNCHANGED <<sheets, codeHeaders, codeTable, deviceLinks,
                 animalLinks, storeAnimals,
                 code_header_names, sheetIdx, rowIdx, verifiedRowObj,
                 sheetResults, linkData, checkData, finalBody, acknowledged,
                 finalResponse>>

\* the code_header query and code_header_names.push(...extraCodeFields); a
\* failed query leaves no result to read the rows of, which throws
LoadCodeHeaders ==
  /\ xpc = "start"
  /\ \/ /\ code_header_names' = codeHeaders \cup extraCodeFields
        /\ xpc' = "rows"
        /\ sheetIdx' = deviceMetadataSheet
        /\ rowIdx' = 1
        /\ UNCHANGED <<sheets, codeHeaders, codeTable, deviceLinks,
                              animalLinks,
                       storeAnimals, verifiedRowObj, sheetResults, delivered,
                       xfail, linkData, checkData, finalBody, acknowledged,
                 finalResponse>>
     \/ Caught("code_headers")

\* the queries one iteration of the row loop issues, each of which may fail
FailPoints(crow, sheet, codeFields) ==
  {"column_types"}
  \cup (IF DOMAIN crow \cap codeFields # {} THEN {"get_code"} ELSE {})
  \cup (IF sheet = deviceMetadataSheet /\ ~ConvertThrows(crow)
            /\ requireFields(convertDates(crow))
         THEN {"cross_row"} ELSE {})

\* what the iteration throws, in program order: the column types query, the
\* get_code queries of checkGenericErrors, the date rewrite, the history and
\* is_new_animal queries
Thrown(crow, failed) ==
  IF failed \in {"column_types", "get_code"} THEN failed
  ELSE IF ConvertThrows(crow) THEN "bad_date"
  ELSE failed

\* one iteration of for (let i = 2; i <= lastRow; i++)
ValidateRow ==
  /\ xpc = "rows"
  /\ rowIdx <= Len(sheets[sheetIdx])
  /\ LET raw == sheets[sheetIdx][rowIdx]
         crow == removeEmptyProps(raw)
     IN \E failed \in {"none"} \cup FailPoints(crow, sheetIdx,
                                                code_header_names) :
          IF Thrown(crow, failed) # "none"
          THEN Caught(Thrown(crow, failed))
          ELSE /\ verifiedRowObj' = Append(verifiedRowObj,
                     RowResult(raw, sheetIdx, code_header_names, deviceLinks,
                               animalLinks, storeAnimals))
               /\ rowIdx' = rowIdx + 1
               /\ linkData' =
                    IF sheetIdx = deviceMetadataSheet
                       /\ requireFields(convertDates(crow))
                    THEN <<[row |-> convertDates(crow),
                            ret |-> verifyAssignment(convertDates(crow),
                                      deviceLinks, animalLinks)]>>
                    ELSE linkData
               /\ checkData' =
                    <<[row |-> convertDates(crow),
                       crow |-> crow,
                       codes |-> codeTable,
                       known |-> storeAnimals,
                       generic |-> checkGenericErrors(crow,
                                                      code_header_names),
                       ret |-> IF sheetIdx = deviceMetadataSheet
                               THEN checkAnimalDeviceErrorsAndWarns(
                                      convertDates(crow), deviceLinks,
                                      animalLinks, storeAnimals)
                               ELSE [errors |-> NoErrors, warnings |-> <<>>,
                                     queries |-> {}]]>>
               /\ UNCHANGED <<sheets, codeHeaders, codeTable, deviceLinks,
                              animalLinks,
                              storeAnimals, xpc, code_header_names, sheetIdx,
                              sheetResults, delivered, xfail, finalBody, acknowledged,
                 finalResponse>>

\* sheetResults.push({headers, rows: verifiedRowObj}), then the next sheet
\* or, after the last one, callback(sheetResults)
EndSheet ==
  /\ xpc = "rows"
  /\ rowIdx > Len(sheets[sheetIdx])
  /\ sheetResults' = Append(sheetResults,
        [headers |-> IF sheetIdx = deviceMetadataSheet THEN MetaHeaders
                     ELSE TeleHeaders,
         rows |-> verifiedRowObj])
  /\ IF sheetIdx < telemetrySheet
     THEN /\ sheetIdx' = sheetIdx + 1
          /\ rowIdx' = 1
          /\ verifiedRowObj' = <<>>
          /\ UNCHANGED <<xpc, delivered>>
     ELSE /\ delivered' = <<sheetResults'>>
          /\ xpc' = "done"
          /\ UNCHANGED <<sheetIdx, rowIdx, verifiedRowObj>>
  /\ UNCHANGED <<sheets, codeHeaders, codeTable, deviceLinks,
                 animalLinks, storeAnimals,
                 code_header_names, xfail, linkData, checkData, finalBody, acknowledged,
                 finalResponse>>

\* another session adds a code to the species header between the checks of
\* two rows of the Device Metadata sheet
UpdateCodes ==
  /\ xpc = "rows"
  /\ sheetIdx = deviceMetadataSheet
  /\ 1 < rowIdx /\ rowIdx <= Len(sheets[sheetIdx])
  /\ codeTable = InitialCodes
  /\ codeTable' = [codeTable EXCEPT !["species"] = Append(@, "Caribou")]
  /\ UNCHANGED <<sheets, codeHeaders, deviceLinks, animalLinks, storeAnimals,
                 xpc, code_header_names, sheetIdx, rowIdx, verifiedRowObj,
                 sheetResults, delivered, xfail, linkData, checkData,
                 finalBody, acknowledged,
                 finalResponse>>

\* ---------------------------------------------------------- finalizeImport
\* upsert_bulk_v2(body): the animals of the rows are stored under their
\* identity
upsert_bulk_v2_noStore(body, known) == known

upsert_bulk_v2(body, known) ==
  known \cup { Get(body[k].row, "animal_id").s :
                k \in { j \in 1..Len(body) :
                          Get(body[j].row, "animal_id").s # "" } }

\* the client posts the rows of the previewed Device Metadata sheet, the
\* user having confirmed its prompts or not, and finalizeImport hands the
\* body to upsert_bulk_v2; a failed query leaves no result to read the rows
\* of, which throws before the response is sent
finalizeImport ==
  /\ xpc = "done"
  /\ finalBody = <<>>
  /\ Len(delivered[1]) > 0
  /\ Len(delivered[1][1].rows) > 0
  /\ finalBody' = <<delivered[1][1].rows>>
  /\ acknowledged' \in BOOLEAN
  /\ \E failed \in BOOLEAN :
       IF failed
       THEN UNCHANGED <<storeAnimals, finalResponse>>
       ELSE /\ storeAnimals' = upsert_bulk_v2(finalBody'[1], storeAnimals)
            /\ finalResponse' =
                 <<[results |-> [k \in 1..Len(finalBody'[1]) |->
                       Get(finalBody'[1][k].row, "animal_id").s]]>>
  /\ UNCHANGED <<sheets, codeHeaders, codeTable, deviceLinks, animalLinks,
                 xpc, code_header_names, sheetIdx, rowIdx, verifiedRowObj,
                 sheetResults, delivered, xfail, linkData, checkData>>

\* importXlsx once more: after the final submission the user uploads the
\* same file for another preview
importXlsx ==
  /\ xpc = "done"
  /\ finalResponse # <<>>
  /\ xpc' = "start"
  /\ code_header_names' = {}
  /\ sheetIdx' = 0
  /\ rowIdx' = 0
  /\ verifiedRowObj' = <<>>
  /\ sheetResults' = <<>>
  /\ delivered' = <<>>
  /\ xfail' = "none"
  /\ linkData' = <<>>
  /\ checkData' = <<>>
  /\ acknowledged' = FALSE
  /\ UNCHANGED <<sheets, codeHeaders, codeTable, deviceLinks, animalLinks,
                 storeAnimals, finalBody, finalResponse>>

NextXlsx ==
  \/ LoadCodeHeaders /\ UNCHANGED <<bulkVars, csvVars>>
  \/ ValidateRow /\ UNCHANGED <<bulkVars, csvVars>>
  \/ EndSheet /\ UNCHANGED <<bulkVars, csvVars>>

SpecXlsx == InitXlsx /\ [][NextXlsx]_vars

\* the validation pass with the reference store being edited meanwhile
NextXlsxStore ==
  \/ NextXlsx
  \/ UpdateCodes /\ UNCHANGED <<bulkVars, csvVars>>

SpecXlsxStore == InitXlsx /\ [][NextXlsxStore]_vars

\* a validation pass, the final submission of its rows and the validation
\* passes that follow a submission, for a store without attachment histories
InitXlsxAgain ==
  /\ InitXlsx
  /\ codeHeaders = {"region"}
  /\ deviceLinks = <<>>
  /\ animalLinks = <<>>

NextXlsxAgain ==
  \/ NextXlsx
  \/ finalizeImport /\ UNCHANGED <<bulkVars, csvVars>>
  \/ importXlsx /\ UNCHANGED <<bulkVars, csvVars>>

SpecXlsxAgain == InitXlsxAgain /\ [][NextXlsxAgain]_vars

\* ----------------------------------------------------------------- importCsv
\* a row of a CSV file after removeEmptyProps: the fields of a combined row
\* and those of a telemetry point, a field the file leaves empty being absent
CsvRow(d, a, recorded, lat) ==
  [device_id |-> d, animal_id |-> a, wlh_id |-> Null, capture_date |-> Null,
   mortality_date |-> Null, retrieval_date |-> Null,
   date_recorded |-> recorded, latitude |-> lat]

\* a deployment, a telemetry point that names its animal, a telemetry
\* point, an animal, a device, and a row with nothing but a latitude
CsvRowPool ==
  { CsvRow(1, 1, Null, Null),
    CsvRow(2, 2, 5, 7),
    CsvRow(3, Null, 5, 7),
    CsvRow(Null, 3, Null, Null),
    CsvRow(4, Null, Null, Null),
    CsvRow(Null, Null, Null, 7) }

\* the type guards: a row is of a type when the required fields of the type
\* are present
isAnimal(row) == row.animal_id # Null \/ row.wlh_id # Null

isCollar(row) == row.device_id # Null

isAnimalAndDevice(row) == isAnimal(row) /\ isCollar(row)

isHistoricalTelemtry(row) ==
  row.device_id # Null /\ row.date_recorded # Null /\ row.latitude # Null

\* the telemetry test made before the combined one
bucketOf_pointsFirst(crow) ==
  IF isHistoricalTelemtry(crow) THEN "points"
  ELSE IF isAnimalAndDevice(crow) THEN "both"
  ELSE IF isAnimal(crow) THEN "animals"
  ELSE IF isCollar(crow) THEN "collars"
  ELSE "none"

\* the array the 'data' handler of parseCSV pushes the row to
bucketOf(crow) ==
  IF isAnimalAndDevice(crow) THEN "both"
  ELSE IF isHistoricalTelemtry(crow) THEN "points"
  ELSE IF isAnimal(crow) THEN "animals"
  ELSE IF isCollar(crow) THEN "collars"
  ELSE "none"

\* the combined rows handled before the telemetry points
handlerOf_bothFirst(obj) ==
  IF Len(obj.both) > 0 THEN "handleBulkMetadata"
  ELSE IF Len(obj.points) > 0 THEN "upsertPointTelemetry"
  ELSE IF Len(obj.collars) > 0 THEN "upsertBulk_device"
  ELSE "upsertBulk_animal"

\* if (points.length) ... else if (both.length) ... else if (collars.length)
\* ... else if (animals.length) ...
handlerOf(obj) ==
  IF Len(obj.points) > 0 THEN "upsertPointTelemetry"
  ELSE IF Len(obj.both) > 0 THEN "handleBulkMetadata"
  ELSE IF Len(obj.collars) > 0 THEN "upsertBulk_device"
  ELSE "upsertBulk_animal"

\* the rows the handler is called with
rowsOf(obj, fn) ==
  CASE fn = "upsertPointTelemetry" -> obj.points
    [] fn = "handleBulkMetadata" -> obj.both
    [] fn = "upsertBulk_device" -> obj.collars
    [] OTHER -> obj.animals

\* the IBulkResponse a handler resolves with for the rows it was given, of
\* which those in `failed` come back as row errors
HandlerResult(fn, rs, failed) ==
  CASE fn = "upsertBulk_device" ->
         upsertBulk(rs, "device", failed, FALSE, FALSE, FALSE)
    [] fn = "upsertBulk_animal" ->
         upsertBulk(rs, "animal", failed, FALSE, FALSE, FALSE)
    [] OTHER ->
         LET badIdx == Kept(Len(rs), (1..Len(rs)) \cap failed)
         IN [errors |-> [k \in 1..Len(badIdx) |->
                           BulkError(badIdx[k], rs[badIdx[k]], fn)],
             results |-> <<Success(fn, Len(rs) - Len(badIdx), -1)>>]

InitCsv ==
  /\ csvRows \in SeqsUpTo(CsvRowPool, MaxCsvRows)
  /\ cpc = "data"
  /\ cpos = 1
  /\ parsed = [both |-> <<>>, animals |-> <<>>, collars |-> <<>>,
               points |-> <<>>]
  /\ handlerCalls = <<>>
  /\ csvResponse = <<>>
  /\ BulkIdle
  /\ XlsxIdle

\* .on('data', ...): the row is pushed to the array of the first type it is of
parseCSVData ==
  /\ cpc = "data"
  /\ cpos <= Len(csvRows)
  /\ LET crow == csvRows[cpos]
         b == bucketOf(crow)
     IN parsed' = IF b = "none" THEN parsed
                  ELSE [parsed EXCEPT ![b] = Append(@, crow)]
  /\ cpos' = cpos + 1
  /\ UNCHANGED <<csvRows, cpc, handlerCalls, csvResponse>>

\* .on('end', ...) calls onFinishedParsing: 404 when no array has a row,
\* else the call of the one handler the arrays select
onFinishedParsing ==
  /\ cpc = "data"
  /\ cpos > Len(csvRows)
  /\ IF Len(parsed.animals) + Len(parsed.collars) + Len(parsed.points)
          + Len(parsed.both) = 0
     THEN /\ csvResponse' = <<[status |-> 404, body |-> NoResponse]>>
          /\ cpc' = "sent"
          /\ UNCHANGED handlerCalls
     ELSE /\ handlerCalls' = Append(handlerCalls,
                [fn |-> handlerOf(parsed),
                 rows |-> rowsOf(parsed, handlerOf(parsed))])
          /\ cpc' = "handler"
          /\ UNCHANGED csvResponse
  /\ UNCHANGED <<csvRows, cpos, parsed>>

\* the handler settles: res.send(r), or res.status(500).send(e) when it threw
sendBulkResponse ==
  /\ cpc = "handler"
  /\ LET call == handlerCalls[Len(handlerCalls)]
     IN \E threw \in BOOLEAN, failed \in SUBSET (1..Len(call.rows)) :
          csvResponse' =
            IF threw THEN <<[status |-> 500, body |-> NoResponse]>>
            ELSE <<[status |-> 200,
                    body |-> HandlerResult(call.fn, call.rows, failed)]>>
  /\ cpc' = "sent"
  /\ UNCHANGED <<csvRows, cpos, parsed, handlerCalls>>

NextCsv ==
  \/ parseCSVData /\ UNCHANGED <<bulkVars, xlsxVars>>
  \/ onFinishedParsing /\ UNCHANGED <<bulkVars, xlsxVars>>
  \/ sendBulkResponse /\ UNCHANGED <<bulkVars, xlsxVars>>

SpecCsv == InitCsv /\ [][NextCsv]_vars

\* ---------------------------------------------------------------- claims
\* the link call of row i was issued
Issued(i) == linkBody[i] # <<>>

NoLinkActivity == \A i \in 1..Len(rows) : linkState[i] = "idle" /\ ~Issued(i)

\* handleCollarCritterLink was entered and handleBulkMetadata has returned
ReturnedAfterLink ==
  /\ pc = "returned"
  /\ animalCall = "done"
  /\ Len(animalResults.errors) = 0
  /\ Len(animalsWithDevices(rows)) > 0

ErrorRows(resp) == { resp.errors[k].rownum : k \in 1..Len(resp.errors) }

AttachedRows(resp) ==
  { resp.results[k].rownum :
      k \in { j \in 1..Len(resp.results) : resp.results[j].kind = "attached" } }

\* C1: once the device upsert has returned at least one row error,
\* handleBulkMetadata has returned exactly the device upsert's result and
\* neither the animal upsert nor any link call was issued for any row.
C1_DeviceErrorStops ==
  (deviceCall = "done" /\ Len(collarResults.errors) > 0) =>
    /\ pc = "returned"
    /\ retval = collarResults
    /\ animalCall = "none"
    /\ NoLinkActivity

\* Scenario D: three rows with a device, only row index 2 fails in phase 1
\* and the returned BulkResult holds only that row's phase-1 error
C1_Witness ==
  /\ Len(rows) = 3
  /\ \A i \in 1..3 : rows[i].device_id # Null
  /\ pc = "returned"
  /\ collarResults.errors = <<BulkError(3, rows[3], "upsert_device")>>
  /\ retval.errors = <<BulkError(3, rows[3], "upsert_device")>>

\* C2: the phases never overlap: the animal upsert starts only after the
\* device upsert has completed, a link call is dispatched only after the
\* animal upsert has completed, and the function returns only after every
\* dispatched link call has settled.
C2_PhasesSequential ==
  /\ animalCall # "none" => deviceCall = "done"
  /\ \A i \in 1..Len(rows) :
       (linkState[i] # "idle" \/ Issued(i)) =>
          deviceCall = "done" /\ animalCall = "done"
  /\ pc = "returned" => \A i \in 1..Len(rows) : linkState[i] # "pending"

\* a run that went through the three phases with two link calls, one of
\* which failed
C2_Witness ==
  /\ pc = "returned"
  /\ \E i, j \in 1..Len(rows) :
       i # j /\ Issued(i) /\ Issued(j) /\ linkState[i] = "rejected"
       /\ linkState[j] = "ok"

\* C3: once the device upsert has returned no error and the animal upsert
\* at least one, handleBulkMetadata has returned exactly the animal
\* upsert's result and no link call was issued for any row.
C3_AnimalErrorStops ==
  (animalCall = "done" /\ Len(collarResults.errors) = 0
     /\ Len(animalResults.errors) > 0) =>
    /\ pc = "returned"
    /\ retval = animalResults
    /\ NoLinkActivity

\* the animal upsert failed on one row of a batch with devices
C3_Witness ==
  /\ pc = "returned"
  /\ deviceCall = "done"
  /\ Len(collarResults.errors) = 0
  /\ Len(animalResults.errors) = 1
  /\ Len(animalsWithDevices(rows)) >= 2
  /\ retval = animalResults

\* the entries the .then of Promise.allSettled recorded for row i
ThenErrors(i) ==
  { k \in 1..Len(ret.errors) :
      ret.errors[k].rownum = rowIndex(i)
      /\ ret.errors[k].error = "link_rejected" }

ThenResults(i) ==
  { k \in 1..Len(ret.results) :
      ret.results[k].rownum = rowIndex(i)
      /\ ret.results[k].kind = "attached" }

C4_State ==
  /\ (pc = "link" /\ nextDispatch <= Len(animalsWithDevices(rows)))
       => ENABLED LinkDispatch
  /\ \A i \in 1..Len(rows) :
       linkState[i] = "pending" => ENABLED LinkSettle(i)
  /\ ReturnedAfterLink =>
       \A k \in 1..Len(animalsWithDevices(rows)) :
         LET i == animalsWithDevices(rows)[k]
         IN /\ linkState[i] \notin {"idle", "pending"}
            /\ (savedCritter(animalResults.results, rows[i]) # 0
                 /\ matchingCollar(collarResults.results, rows[i]) # 0)
                 => Issued(i) /\ linkState[i] \in QueryOutcomes
            /\ Cardinality(ThenErrors(i)) + Cardinality(ThenResults(i)) = 1
            /\ linkState[i] = "rejected" <=> ThenErrors(i) # {}

\* C4: the link calls of phase 3 are independent: whatever the outcome of
\* the other rows, a row's link call can still be dispatched and can still
\* settle, a completed link is never undone, and at the return every row
\* with a device has settled and has exactly one collected outcome, decided
\* by its own promise alone.
C4_LinksIndependent ==
  /\ []C4_State
  /\ [][\A i \in 1..Len(rows) :
          linkState[i] = "ok" => linkState'[i] = "ok"]_vars

\* a later row was dispatched and linked although an earlier row's link
\* call had been rejected
C4_Witness ==
  /\ pc = "returned"
  /\ \E i, j \in 1..Len(rows) :
       i < j /\ linkState[i] = "rejected" /\ linkState[j] = "ok"
       /\ ThenErrors(i) # {} /\ ThenResults(j) # {}

\* C5 (as claimed): when two rows enter phase 3 and the link call of row a
\* fails while that of row b succeeds, the returned BulkResult has errors
\* holding exactly row a and link results holding exactly row b.
C5_FailedRowInErrors ==
  \A a, b \in 1..Len(rows) :
    (/\ ReturnedAfterLink
     /\ animalsWithDevices(rows) \in {<<a, b>>, <<b, a>>}
     /\ Issued(a) /\ Issued(b)
     /\ linkState[a] \in {"isError", "rejected"}
     /\ linkState[b] = "ok")
    => /\ ErrorRows(retval) = {rowIndex(a)}
       /\ AttachedRows(retval) = {rowIndex(b)}

\* C6 (as claimed): a returned BulkResult with no error means that the
\* devices and animals were upserted and that for every row with a device
\* id a link call was issued and succeeded.
C6_EmptyErrorsMeanSuccess ==
  (pc = "returned" /\ Len(retval.errors) = 0) =>
    /\ deviceCall = "done" /\ Len(collarResults.errors) = 0
    /\ animalCall = "done" /\ Len(animalResults.errors) = 0
    /\ \A i \in 1..Len(rows) :
         rows[i].device_id # Null => Issued(i) /\ linkState[i] = "ok"

\* ------------------------------------------------- claims on the validation

\* C7 (as claimed): a bulk upsert is issued only for a batch all of whose
\* rows were validated without an error.
C7_UpsertOnlyWithoutErrors ==
  finalBody # <<>> =>
    \A k \in 1..Len(finalBody[1]) : DOMAIN finalBody[1][k].errors = {}

\* the overlap rule on intervals with an open end: A and B overlap iff
\* A.start < (B.end or +inf) and B.start < (A.end or +inf)
Open(e) == e = Null \/ e = DbNull

Overlaps(a, b) ==
  /\ (Open(b.end) \/ a.start < b.end)
  /\ (Open(a.end) \/ b.start < a.end)

\* [capture_date ?? now, retrieval_date ?? mortality_date ?? open)
Candidate(row) ==
  [start |-> IF Truthy(Get(row, "capture_date"))
             THEN Get(row, "capture_date").n ELSE Now,
   end |-> IF Truthy(Get(row, "retrieval_date"))
           THEN Get(row, "retrieval_date").n
           ELSE IF Truthy(Get(row, "mortality_date"))
           THEN Get(row, "mortality_date").n
           ELSE Null]

\* the assignment history of the device of a row, as intervals
HistoryOf(row) ==
  LET h == DeviceLinksOf(row, deviceLinks)
  IN { [start |-> h[k].attachment_start, end |-> h[k].attachment_end] :
         k \in 1..Len(h) }

\* C8: for a row with both required fields verifyAssignment sets an error
\* on device_id iff some interval of the device's history overlaps the
\* candidate interval, adds the non-prompting 'previous deployments'
\* warning iff the history is non-empty and nothing overlaps, and adds
\* neither with an empty history.
C8_DeviceOverlap ==
  linkData # <<>> =>
    LET row == linkData[1].row
        out == linkData[1].ret
        hit == \E h \in HistoryOf(row) : Overlaps(h, Candidate(row))
        warned == Includes(out.warnings,
                           Warning("previous deployments", FALSE))
    IN /\ "device_id" \in DOMAIN out.errors <=> hit
       /\ warned <=> (HistoryOf(row) # {} /\ ~hit)
       /\ HistoryOf(row) = {} =>
            "device_id" \notin DOMAIN out.errors /\ ~warned

\* an error on device_id for a device whose history holds one interval that
\* overlaps the candidate and one that does not
C8_Witness ==
  /\ linkData # <<>>
  /\ "device_id" \in DOMAIN linkData[1].ret.errors
  /\ \E h \in HistoryOf(linkData[1].row) :
       ~Overlaps(h, Candidate(linkData[1].row))

\* a store call of the pass failed
StoreFailed == xfail \in {"code_headers", "column_types", "get_code",
                          "cross_row"}

\* C9 (as claimed): whatever the cells hold, parseXlsx hands over exactly
\* one row result per data row of every sheet, in input order.
C9_EveryRowReported ==
  (xpc = "done" /\ ~StoreFailed) =>
    /\ Len(delivered[1]) = 2
    /\ \A sh \in 1..2 :
         /\ Len(delivered[1][sh].rows) = Len(sheets[sh])
         /\ \A k \in 1..Len(sheets[sh]) :
              DOMAIN delivered[1][sh].rows[k].row
                = DOMAIN removeEmptyProps(sheets[sh][k])

\* C10 (as claimed): when the code header query or a get_code query fails,
\* the callback receives no row result of any sheet.
C10_NoPartialResults ==
  (xpc = "done" /\ xfail \in {"code_headers", "get_code"}) =>
    delivered[1] = <<>>

\* every row result parseXlsx has built so far or handed to the callback
RowResults ==
  { verifiedRowObj[k] : k \in 1..Len(verifiedRowObj) }
  \cup UNION { { sheetResults[sh].rows[k] :
                  k \in 1..Len(sheetResults[sh].rows) } :
               sh \in 1..Len(sheetResults) }
  \cup (IF delivered = <<>> THEN {}
        ELSE UNION { { delivered[1][sh].rows[k] :
                         k \in 1..Len(delivered[1][sh].rows) } :
                     sh \in 1..Len(delivered[1]) })

\* C11: every row result of parseXlsx has success = (its merged error map
\* has no key); the merged map keeps every key of the field checks, and a
\* row without errors is successful whatever warnings it carries.
C11_SuccessIffNoErrors ==
  /\ \A r \in RowResults : r.success <=> (DOMAIN r.errors = {})
  /\ (Len(verifiedRowObj) > 0 /\ checkData # <<>>) =>
       DOMAIN checkData[1].generic
         \subseteq DOMAIN verifiedRowObj[Len(verifiedRowObj)].errors

\* a delivered sheet holding a successful row with a prompting and a
\* non-prompting warning, and a failed row
C11_Witness ==
  /\ xpc = "done"
  /\ \E r, q \in RowResults :
       /\ r.success
       /\ Includes(r.warnings, Warning("new animal", TRUE))
       /\ Includes(r.warnings, Warning("previous deployments", FALSE))
       /\ ~q.success

\* the last Device Metadata row that went through the row loop: checkData
\* holds its call of checkAnimalDeviceErrorsAndWarns and LastMeta its result
HasLastMeta ==
  /\ sheetIdx = deviceMetadataSheet
  /\ Len(verifiedRowObj) > 0
  /\ checkData # <<>>

LastMeta == verifiedRowObj[Len(verifiedRowObj)]

Absent(row, key) == key \notin DOMAIN row

\* what checkAnimalDeviceErrorsAndWarns does for a row lacking species or
\* the device id: one error, keyed missing_data, no warning, no lookup
MissingDataOnly ==
  (HasLastMeta /\ (Absent(checkData[1].row, "species")
                    \/ Absent(checkData[1].row, "device_id"))) =>
    /\ DOMAIN checkData[1].ret.errors = {"missing_data"}
    /\ checkData[1].ret.warnings = <<>>
    /\ checkData[1].ret.queries = {}

\* C12 (as claimed): for a row lacking species or the device id the check
\* emits exactly the missing_data error, no warning and no lookup, and a
\* row lacking both ends with exactly one error, key missing_data.
C12_MissingBothOneError ==
  /\ MissingDataOnly
  /\ (HasLastMeta /\ Absent(LastMeta.row, "species")
        /\ Absent(LastMeta.row, "device_id")) =>
       DOMAIN LastMeta.errors = {"missing_data"}

\* C12 (amended): for a row lacking species or the device id the check
\* emits exactly the missing_data error, no warning and no lookup, and the
\* row ends with the missing_data error besides the errors of its field
\* checks: with exactly one error when no present field fails its check.
C12_MissingData ==
  /\ MissingDataOnly
  /\ (HasLastMeta /\ (Absent(LastMeta.row, "species")
                        \/ Absent(LastMeta.row, "device_id"))) =>
       /\ DOMAIN LastMeta.errors
            = DOMAIN checkData[1].generic \cup {"missing_data"}
       /\ DOMAIN checkData[1].generic = {} =>
            DOMAIN LastMeta.errors = {"missing_data"}
       /\ LastMeta.warnings = <<>>

\* Scenario A: a row with neither species nor device id, all of whose
\* present fields pass their checks, for a device and an animal with history
C12_Witness ==
  /\ HasLastMeta
  /\ Absent(LastMeta.row, "species")
  /\ Absent(LastMeta.row, "device_id")
  /\ DOMAIN LastMeta.errors = {"missing_data"}
  /\ checkData[1].ret.queries = {}
  /\ deviceLinks # <<>>
  /\ storeAnimals = {}

\* C13 (as claimed): for a Device Metadata row whose field checks found at
\* least one error, no history or is-new-animal lookup is issued, and the
\* row's errors and warnings hold nothing that verifyAssignment or
\* verifyUniqueAnimals produce.
C13_CrossRowOnlyWithoutFieldErrors ==
  (HasLastMeta /\ DOMAIN checkData[1].generic # {}) =>
    /\ checkData[1].ret.queries = {}
    /\ LastMeta.warnings = <<>>
    /\ DOMAIN LastMeta.errors
         \subseteq DOMAIN checkData[1].generic \cup {"missing_data"}

\* the collar assignment history of the animal of a row, as intervals
AnimalHistoryOf(row) ==
  LET h == AnimalLinksOf(row, animalLinks)
  IN { [start |-> h[k].attachment_start, end |-> h[k].attachment_end] :
         k \in 1..Len(h) }

MultipleDevices == Warning("multiple devices", TRUE)

\* C14: for a row that names an existing animal (critter_id present)
\* verifyAssignment adds the prompting 'multiple devices' warning iff some
\* interval of the animal's history overlaps the candidate interval,
\* whatever the device check found; the warning is never added for a row
\* without critter_id, and the only key errors can hold is the device
\* check's device_id, set iff the device's history overlaps.
C14_AnimalCheckIndependent ==
  linkData # <<>> =>
    LET row == linkData[1].row
        out == linkData[1].ret
        devHit == \E h \in HistoryOf(row) : Overlaps(h, Candidate(row))
        aniHit == \E h \in AnimalHistoryOf(row) : Overlaps(h, Candidate(row))
    IN /\ Truthy(Get(row, "critter_id")) =>
            (Includes(out.warnings, MultipleDevices) <=> aniHit)
       /\ ~Truthy(Get(row, "critter_id")) =>
            ~Includes(out.warnings, MultipleDevices)
       /\ DOMAIN out.errors \subseteq {"device_id"}
       /\ "device_id" \in DOMAIN out.errors <=> devHit
       /\ \A k \in 1..Len(out.warnings) :
            out.warnings[k] = MultipleDevices => out.warnings[k].prompt

\* the device check found an error and the animal check still warned, for an
\* animal whose history also holds an interval that does not overlap
C14_Witness ==
  /\ linkData # <<>>
  /\ "device_id" \in DOMAIN linkData[1].ret.errors
  /\ Includes(linkData[1].ret.warnings, MultipleDevices)
  /\ \E h \in AnimalHistoryOf(linkData[1].row) :
       ~Overlaps(h, Candidate(linkData[1].row))

NewAnimal == Warning("new animal", TRUE)

\* the last row reached verifyUniqueAnimals: linkData holds what
\* verifyAssignment returned for it just before
ReachedUnique ==
  /\ checkData # <<>>
  /\ requireFields(checkData[1].row)
  /\ linkData # <<>>
  /\ linkData[1].row = checkData[1].row

\* C15: for a row that reaches the uniqueness check, exactly one prompting
\* 'new animal' warning is appended to the warnings of verifyAssignment
\* when the store reports the animal as new, nothing is appended when it
\* does not, and the error map is the one verifyAssignment returned.
C15_UniqueNeverErrors ==
  ReachedUnique =>
    LET before == linkData[1].ret
        after == checkData[1].ret
    IN /\ after.errors = before.errors
       /\ is_new_animal(checkData[1].row, checkData[1].known) =>
            after.warnings = Append(before.warnings, NewAnimal)
       /\ ~is_new_animal(checkData[1].row, checkData[1].known) =>
            after.warnings = before.warnings
       /\ NewAnimal.prompt

\* a new animal on a device with an overlapping assignment: the warning is
\* appended and the device_id error stays the only error
C15_Witness ==
  /\ ReachedUnique
  /\ is_new_animal(checkData[1].row, checkData[1].known)
  /\ DOMAIN checkData[1].ret.errors = {"device_id"}
  /\ checkData[1].ret.warnings = <<NewAnimal>>

\* the code fields of a pass: the names of table code_header and species
CodeFields == codeHeaders \cup {"species"}

\* the cell holds exactly one of the descriptions of the list
InDomain(cell, domain) ==
  \E k \in 1..Len(domain) : cell = StrCell(domain[k])

\* C16: for every present code field of a row, checkGenericErrors records
\* an error on the field iff its value equals no member of the field's code
\* domain, and that error's valid_values is the whole domain in the order
\* the store returned it.
C16_CodeFieldErrors ==
  checkData # <<>> =>
    \A key \in DOMAIN checkData[1].row \cap CodeFields :
      LET domain == checkData[1].codes[key]
      IN /\ key \in DOMAIN checkData[1].generic
              <=> ~InDomain(checkData[1].row[key], domain)
         /\ key \in DOMAIN checkData[1].generic =>
              checkData[1].generic[key].valid_values = domain

\* Scenario C: species = 'Caribou' is not in the species domain and the
\* error on species lists the whole domain, while the region of the same
\* row is a code and has no error
C16_Witness ==
  /\ checkData # <<>>
  /\ Get(checkData[1].row, "species") = StrCell("Caribou")
  /\ "species" \in DOMAIN checkData[1].generic
  /\ checkData[1].generic["species"].valid_values = <<"Moose", "Elk">>
  /\ Get(checkData[1].row, "region") = StrCell("Peace")
  /\ "region" \notin DOMAIN checkData[1].generic

\* the last row that went through the row loop, as read from the sheet
HasLastRow == Len(verifiedRowObj) > 0 /\ checkData # <<>>

LastRaw == sheets[sheetIdx][Len(verifiedRowObj)]

\* the cell holds nothing: no value or the empty text
EmptyCell(c) == c = Empty \/ c = StrCell("")

\* the declared type of a column of the animal and collar tables
Declared(key, type) == columnTypes(key) = type

\* C17: checkGenericErrors applies one policy to each present field that is
\* no code field: declared date, an error iff the value is no date;
\* declared number, an error iff it is no number; declared boolean, an error
\* iff it is neither the token TRUE nor FALSE; any other field, never an
\* error. A field that is absent or empty in the sheet is dropped from the
\* row and has no error, and no error names a key the sheet does not have.
C17_OnePolicyPerField ==
  HasLastRow =>
    LET g == checkData[1].generic
        crow == checkData[1].crow
    IN /\ DOMAIN g \subseteq DOMAIN LastRaw
       /\ \A key \in DOMAIN LastRaw :
            IF EmptyCell(LastRaw[key])
            THEN key \notin DOMAIN crow /\ key \notin DOMAIN g
            ELSE /\ key \in DOMAIN crow
                 /\ crow[key] = LastRaw[key]
                 /\ key \notin code_header_names =>
                      CASE Declared(key, "date") ->
                             (key \in DOMAIN g <=> LastRaw[key].t # "date")
                        [] Declared(key, "number") ->
                             (key \in DOMAIN g <=> LastRaw[key].t # "number")
                        [] Declared(key, "boolean") ->
                             (key \in DOMAIN g <=>
                                LastRaw[key] \notin {StrCell("TRUE"),
                                                     StrCell("FALSE")})
                        [] OTHER -> key \notin DOMAIN g

\* a row whose date is given as text and whose other typed fields are
\* right, checked next to a row whose status is no boolean token
C17_Witness ==
  /\ HasLastRow
  /\ sheetIdx = deviceMetadataSheet
  /\ LastRaw["capture_date"] = DateStrCell(3)
  /\ "capture_date" \in DOMAIN checkData[1].generic
  /\ "device_id" \notin DOMAIN checkData[1].generic
  /\ "animal_id" \notin DOMAIN checkData[1].generic
  /\ \E r \in RowResults : "activation_status" \in DOMAIN r.errors

\* C18 (as claimed): every row of a pass is checked against the code
\* domain as it was when the pass began, also when the store is edited
\* between two rows, so two rows of a sheet with the same cells get the same
\* errors wherever they stand in it.
C18_CodeDomainFixed ==
  /\ checkData # <<>> => checkData[1].codes = InitialCodes
  /\ (xpc = "done" /\ Len(delivered[1]) >= deviceMetadataSheet) =>
       \A j, k \in 1..Len(delivered[1][deviceMetadataSheet].rows) :
         sheets[deviceMetadataSheet][j] = sheets[deviceMetadataSheet][k] =>
           delivered[1][deviceMetadataSheet].rows[j].errors
             = delivered[1][deviceMetadataSheet].rows[k].errors

\* a ?? b ?? c on the properties of a row
RowDate(a, b, c) == IF a # Null THEN a ELSE IF b # Null THEN b ELSE c

\* C19 (as claimed): the link call of every linked row carries the interval
\* that starts at the row's capture date, or at the time of the call when
\* the row has none, and ends at the row's mortality date, else at its
\* device retrieval date, else is open.
C19_AttachmentInterval ==
  \A i \in 1..Len(rows) :
    Issued(i) =>
      /\ linkBody[i][1].attachment_start
           = RowDate(rows[i].capture_date, Now, Now)
      /\ linkBody[i][1].attachment_end
           = RowDate(rows[i].mortality_date, rows[i].retrieval_date, DbNull)

\* C20 (as claimed): once phase 3 is over, every row with a device id had
\* a link call, and the call carried the collar id of the upserted device
\* with the row's device id and the critter id of the animal upserted from
\* the row, however the two result lists were ordered or de-duplicated and
\* whichever key names the animal.
C20_MatchedByNaturalKey ==
  ReturnedAfterLink =>
    \A i \in 1..Len(rows) :
      rows[i].device_id # Null =>
        /\ Issued(i)
        /\ linkBody[i][1].collar_id = Collar(rows[i]).collar_id
        /\ linkBody[i][1].critter_id = Animal(rows[i]).critter_id

\* the entries phase 3 has added to the errors of the response
LinkErrors ==
  { k \in 1..Len(ret.errors) :
      ret.errors[k].error \in {"no_matching_collar", "link_rejected"} }

\* C21: every entry phase 3 adds to errors has as rownum the 0-based index,
\* in the input batch, of a row with a device id whose link failed in the
\* way the entry names, and carries the values of that same row.
C21_ErrorRowIndex ==
  \A k \in LinkErrors :
    LET e == ret.errors[k]
        i == e.rownum + 1
    IN /\ i \in 1..Len(rows)
       /\ rows[i].device_id # Null
       /\ e.row = rowToCsv(rows[i])
       /\ e.error = "no_matching_collar" => linkState[i] = "nocollar"
       /\ e.error = "link_rejected" => linkState[i] = "rejected"

\* both kinds of entry in one response, the rejected link being that of a
\* row that stands behind a row without a device, so that its index in the
\* batch is not its index among the rows with a device
C21_Witness ==
  /\ pc = "returned"
  /\ Len(rows) = 3
  /\ rows[2].device_id = Null
  /\ \E j, k \in LinkErrors :
       /\ ret.errors[j].error = "no_matching_collar"
       /\ ret.errors[k].error = "link_rejected"
       /\ ret.errors[k].rownum = 2

\* C22 (as claimed): every interval the program builds has end >= start
\* when its end is present: the interval of each link call and the
\* candidate interval verifyAssignment checks.
C22_EndNotBeforeStart ==
  /\ \A i \in 1..Len(rows) :
       (Issued(i) /\ ~Open(linkBody[i][1].attachment_end)) =>
          linkBody[i][1].attachment_end >= linkBody[i][1].attachment_start
  /\ (linkData # <<>> /\ ~Open(row_end(linkData[1].row))) =>
       row_end(linkData[1].row) >= row_start(linkData[1].row)

\* the intervals verifyAssignment compares with the candidate of its row
ComparedWith(row) == HistoryOf(row) \cup AnimalHistoryOf(row)

\* the two intervals share one boundary point and nothing else
Adjacent(a, b) ==
  \/ ~Open(a.end) /\ a.end = b.start /\ a.start < a.end
       /\ (Open(b.end) \/ b.start < b.end)
  \/ ~Open(b.end) /\ b.end = a.start /\ b.start < b.end
       /\ (Open(a.end) \/ a.start < a.end)

Prompts(body) ==
  \E k \in 1..Len(body) :
    \E w \in 1..Len(body[k].warnings) : body[k].warnings[w].prompt

\* C24 (as claimed): finalizeImport issues the bulk upsert only for a batch
\* whose prompting warnings the user has all acknowledged.
C24_PromptsAcknowledged ==
  (finalBody # <<>> /\ Prompts(finalBody[1])) => acknowledged

\* the identities of the rows that upsert_bulk_v2 was given and stored
Upserted ==
  IF finalResponse = <<>> THEN {}
  ELSE { Get(finalBody[1][k].row, "animal_id").s : k \in 1..Len(finalBody[1]) }
       \ {""}

\* the rows of the current sheet that got as far as the is_new_animal query
Checked ==
  { k \in 1..Len(verifiedRowObj) : requireFields(verifiedRowObj[k].row) }

AsMetadata(r) ==
  [k \in { f \in {"capture_date", "mortality_date", "retrieval_date"} :
             r[f] # Null } |-> toISODay(DateCell(r[k]))]

\* C26 (as claimed): the link call of every linked row carries the interval
\* that verifyAssignment checks for conflicts when it is handed that row:
\* the same start and the same end, open or not.
C26_ValidatedIsAttached ==
  \A i \in 1..Len(rows) :
    Issued(i) =>
      LET cand == AsMetadata(rows[i])
          body == linkBody[i][1]
      IN /\ body.attachment_start = row_start(cand)
         /\ Open(body.attachment_end) <=> Open(row_end(cand))
         /\ ~Open(row_end(cand)) => body.attachment_end = row_end(cand)

\* the entries of errors that phase 3 added for row i, and the success
\* records of results for it
LinkErrorsOf(i) == { k \in LinkErrors : ret.errors[k].rownum = rowIndex(i) }

AttachedOf(i) ==
  { k \in 1..Len(ret.results) :
      /\ ret.results[k].kind = "attached"
      /\ ret.results[k].rownum = rowIndex(i) }

\* C27 (as claimed): after phase 3 every row with a device id has one
\* error entry or one success record in the response, not both and not
\* neither, and a success record only if its link call was issued.
C27_OneOutcomePerRow ==
  ReturnedAfterLink =>
    \A i \in 1..Len(rows) :
      rows[i].device_id # Null =>
        /\ Cardinality(LinkErrorsOf(i)) + Cardinality(AttachedOf(i)) = 1
        /\ AttachedOf(i) # {} => Issued(i)

\* C28 (as claimed): the data-life interval of every link call is the
\* attachment interval of that call, start for start and end for end.
C28_DataLifeIsAttachment ==
  \A i \in 1..Len(rows) :
    Issued(i) =>
      /\ linkBody[i][1].data_life_start = linkBody[i][1].attachment_start
      /\ linkBody[i][1].data_life_end = linkBody[i][1].attachment_end

\* the rows of the file read so far that are of bucket b when the combined
\* test is made first, then the telemetry test, then animal, then device
ShouldHold(b) ==
  LET is(r) ==
        CASE b = "both" -> isAnimalAndDevice(r)
          [] b = "points" -> ~isAnimalAndDevice(r) /\ isHistoricalTelemtry(r)
          [] b = "animals" -> /\ ~isAnimalAndDevice(r)
                              /\ ~isHistoricalTelemtry(r)
                              /\ isAnimal(r)
          [] OTHER -> /\ ~isAnimalAndDevice(r) /\ ~isHistoricalTelemtry(r)
                      /\ ~isAnimal(r) /\ isCollar(r)
      idx == Kept(cpos - 1, { i \in 1..(cpos - 1) : is(csvRows[i]) })
  IN [k \in 1..Len(idx) |-> csvRows[idx[k]]]

Buckets == {"both", "points", "animals", "collars"}

\* every row read is in the one array its first matching test names and in
\* no other
OneBucketPerRow ==
  cpc # "idle" =>
    /\ \A b \in Buckets : parsed[b] = ShouldHold(b)
    /\ Len(parsed.both) + Len(parsed.points) + Len(parsed.animals)
         + Len(parsed.collars) <= cpos - 1

\* the one call the priority points > combined > devices > animals selects
PriorityCall ==
  IF Len(parsed.points) > 0
  THEN [fn |-> "upsertPointTelemetry", rows |-> parsed.points]
  ELSE IF Len(parsed.both) > 0
  THEN [fn |-> "handleBulkMetadata", rows |-> parsed.both]
  ELSE IF Len(parsed.collars) > 0
  THEN [fn |-> "upsertBulk_device", rows |-> parsed.collars]
  ELSE [fn |-> "upsertBulk_animal", rows |-> parsed.animals]

\* the response names no row but rows of the call that was made
OnlyCalledRowsReported ==
  (cpc = "sent" /\ csvResponse[1].status = 200) =>
    \A k \in 1..Len(csvResponse[1].body.errors) :
      \E j \in 1..Len(handlerCalls[1].rows) :
        /\ csvResponse[1].body.errors[k].row
             = rowToCsv(handlerCalls[1].rows[j])
        /\ csvResponse[1].body.errors[k].rownum = rowIndex(j)

NothingClassified ==
  \A b \in Buckets : Len(parsed[b]) = 0

Stored(row) == Get(row, "animal_id").s \in storeAnimals

\* a step of the validation pass
PassStep == xpc \in {"start", "rows"}

\* C30: a validation pass writes nothing and calls no upsert and no link,
\* so a row gets the 'new animal' warning exactly when the store as it was
\* before the pass does not hold its identity, whatever rows were validated
\* before it; two rows with the same identity not yet stored both get it.
C30_PassReadOnly ==
  /\ []((xpc = "rows" /\ sheetIdx = deviceMetadataSheet) =>
          \A k \in Checked :
            Includes(verifiedRowObj[k].warnings, NewAnimal)
              <=> ~Stored(verifiedRowObj[k].row))
  /\ [][PassStep =>
          /\ UNCHANGED <<storeAnimals, deviceLinks, animalLinks, codeTable>>
          /\ UNCHANGED <<finalBody, finalResponse>>
          /\ UNCHANGED bulkVars]_vars

\* two rows of one sheet with the same identity, not stored, both warned
C30_Witness ==
  /\ xpc = "rows" /\ sheetIdx = deviceMetadataSheet
  /\ Checked = {1, 2}
  /\ Get(verifiedRowObj[1].row, "animal_id")
       = Get(verifiedRowObj[2].row, "animal_id")
  /\ ~Stored(verifiedRowObj[1].row)
  /\ Includes(verifiedRowObj[1].warnings, NewAnimal)
  /\ Includes(verifiedRowObj[2].warnings, NewAnimal)
====
